---------------------------- MODULE Spec2Model ----------------------------
(***************************************************************************)
(* A model of mycli's chat-completion pipeline and REPL session:           *)
(*   - OpenAIService.complete       (src/mycli/ai/openai.py, retry loop)   *)
(*   - OpenAIService.complete_stream (server-sent-event chunk decoder)     *)
(*   - Agent.chat                   (src/mycli/core/agent.py)              *)
(*   - REPLSession.run / handle_command / save_session, start_repl         *)
(*                                                                         *)
(* Text is a sequence of one-character strings.  A JSON document is a     *)
(* tagged record (t = "null" | "num" | "str" | "arr" | "obj"); json.loads  *)
(* of a line is modelled by the document the text denotes, or by a         *)
(* JSONDecodeError when the text denotes none.  Python's subscripting and  *)
(* membership are modelled with the exceptions they raise.                 *)
(***************************************************************************)
EXTENDS Integers, Sequences, FiniteSets, TLC

VARIABLES
    \* ---- one Agent.chat / complete / complete_stream call ----
    stream,        \* Agent.chat's stream flag
    max_retries,   \* OpenAIService.max_retries
    attempt,       \* complete(): loop variable of "for attempt in range(...)"
    calls,         \* complete(): the responses the provider gave, one per request sent
    errors,        \* complete(): the exception caught at each failed attempt
    script,        \* complete_stream(): what the provider will send on this call
    pos,           \* complete_stream(): number of lines taken from aiter_lines
    chunks,        \* complete_stream(): the values yielded so far
    warnings,      \* complete_stream(): logger.warning calls so far
    full_content,  \* Agent.chat: the accumulation buffer
    printed,       \* Agent.chat: the chunks forwarded to stdout
    chatPc,        \* "call" | "lines" | "returned" | "raised"
    completion,    \* the CompletionResponse complete() returned
    chatResult,    \* what Agent.chat returned
    chatError,     \* the exception the call raised
    \* ---- the REPL session ----
    pc,            \* "Reading" | "Streaming" | "Closed"
    messages,      \* REPLSession.messages, the transcript
    agent,         \* REPLSession.agent (name of the active agent)
    session_id,    \* REPLSession.session_id
    next_uuid,     \* the supply of fresh uuid4 values
    sessions,      \* the sessions table: session id -> stored record
    auto_save,     \* config.repl.auto_save
    api_key,       \* whether an OpenAI API key is configured
    ai_service,    \* whether the active Agent object holds an OpenAIService
    open_clients,  \* HTTP clients created and not closed
    inputs_read,   \* number of prompts answered so far
    last_input,    \* the newest raw input line (its number in Inputs)
    before_turn,   \* the transcript when the newest input was read
    last_call,     \* the arguments of the newest Agent.chat call
    last_sent,     \* the newest message list handed to the completion client
    turn,          \* outcome of the newest plain-input turn
    console,       \* what the newest command or turn reported
    exit_code,     \* the process exit code, -1 while the process runs
    \* ---- the agent store and calls made on it ----
    store,         \* the rows of the agents table, in insertion order
    agent_uuid,    \* the supply of fresh uuid4 values for agent ids
    ops,           \* number of calls made so far
    outcome        \* the newest call: its arguments, the store before it, its result

chatVars == <<stream, max_retries, attempt, calls, errors, script, pos, chunks,
              warnings, full_content, printed, chatPc, completion, chatResult,
              chatError>>

replVars == <<pc, messages, agent, session_id, next_uuid, sessions, auto_save,
              api_key, ai_service, open_clients, inputs_read, last_input,
              before_turn, last_call, last_sent, turn, console, exit_code>>

managerVars == <<store, agent_uuid, ops, outcome>>

vars == <<chatVars, replVars, managerVars>>

-----------------------------------------------------------------------------
(* Bounds of the model *)

\* largest max_retries tried
MaxRetries == 3
\* longest line sequence of one streamed response
MaxLines == 3
\* number of prompts one REPL session answers
MaxInputs == 4
\* number of calls made on the agent store
MaxOps == 3

-----------------------------------------------------------------------------
(* JSON documents and the Python operations the code applies to them *)

JNull == [t |-> "null"]
JNum(n) == [t |-> "num", v |-> n]
JStr(s) == [t |-> "str", v |-> s]
JArr(xs) == [t |-> "arr", v |-> xs]
JObj(f) == [t |-> "obj", v |-> f]

\* the outcome of evaluating a Python expression: a value or a raised exception
Ok(x) == [exc |-> "none", val |-> x]
Raise(e) == [exc |-> e]

\* x[k] for a string key k
GetItem(x, k) ==
    IF x.t = "obj"
    THEN IF k \in DOMAIN x.v THEN Ok(x.v[k]) ELSE Raise("KeyError")
    ELSE Raise("TypeError")

\* x[0]
GetFirst(x) ==
    CASE x.t = "arr" -> IF Len(x.v) > 0 THEN Ok(x.v[1]) ELSE Raise("IndexError")
      [] x.t = "obj" -> Raise("KeyError")
      [] x.t = "str" -> IF Len(x.v) > 0 THEN Ok(JStr(<<x.v[1]>>)) ELSE Raise("IndexError")
      [] OTHER -> Raise("TypeError")

ContentKey == <<"c", "o", "n", "t", "e", "n", "t">>

\* needle occurs in hay as a contiguous run
IsSubstring(needle, hay) ==
    \E i \in 0..(Len(hay) - Len(needle)) :
        SubSeq(hay, i + 1, i + Len(needle)) = needle

\* "content" in x
HasContent(x) ==
    CASE x.t = "obj" -> Ok("content" \in DOMAIN x.v)
      [] x.t = "arr" -> Ok(\E i \in 1..Len(x.v) :
                              x.v[i].t = "str" /\ x.v[i].v = ContentKey)
      [] x.t = "str" -> Ok(IsSubstring(ContentKey, x.v))
      [] OTHER -> Raise("TypeError")

-----------------------------------------------------------------------------
(* The provider's answers to one POST /chat/completions of complete() *)

\* a response body: text that json.loads turns into doc, or that it rejects
JsonText(d) == [valid |-> TRUE, doc |-> d]
BadText(raw) == [valid |-> FALSE, raw |-> raw]

\* response.json() / json.loads(text)
json_loads(text) == IF text.valid THEN Ok(text.doc) ELSE Raise("JSONDecodeError")

Hi == <<"h", "i">>
Yo == <<"y", "o">>
Assistant == JStr(<<"a">>)
Usage == JObj([total_tokens |-> JNum(7)])

TransportFailure == [kind |-> "transport"]
HttpResponse(status, body) == [kind |-> "http", status |-> status, body |-> body]

CompletionBody(content) ==
    JsonText(JObj([choices |-> JArr(<<JObj([message |-> JObj([role |-> Assistant,
                                                               content |-> JStr(content)]),
                                            finish_reason |-> JStr(<<"s">>)])>>),
                   usage |-> Usage]))

Responses ==
    << TransportFailure,
       HttpResponse(500, BadText("gateway")),
       HttpResponse(404, JsonText(JObj([error |-> JStr(<<"e">>)]))),
       HttpResponse(200, CompletionBody(Hi)),
       HttpResponse(200, JsonText(JObj([choices |-> JArr(<<JObj([message |->
                             JObj([role |-> Assistant, content |-> JStr(Yo)])])>>)]))),
       HttpResponse(200, BadText("<html>")),
       HttpResponse(200, JsonText(JObj([usage |-> Usage]))),
       HttpResponse(200, JsonText(JObj([choices |-> JArr(<<>>)]))),
       HttpResponse(200, JsonText(JObj([choices |-> JArr(<<JObj([message |->
                             JObj([role |-> Assistant])])>>)]))),
       HttpResponse(200, JsonText(JObj([choices |-> JArr(<<JObj([message |->
                             JObj([content |-> JStr(Hi)])])>>)]))),
       HttpResponse(200, JsonText(JNull)) >>

\* response.raise_for_status()
raise_for_status(r) == IF r.status \in 200..299 THEN Ok(r) ELSE Raise("HTTPStatusError")

\* a lookup that answers a missing key with zero
DictGetZeroDefault(d, k) == IF k \in DOMAIN d.v THEN d.v[k] ELSE JNum(0)

\* d.get(k): the value, or None
DictGet(d, k) == IF k \in DOMAIN d.v THEN d.v[k] ELSE JNull

\* lines 101-110: decode the body of a 2xx response into a CompletionResponse
CompletionResponse(body) ==
    LET data == json_loads(body)
        choices == GetItem(data.val, "choices")
        choice == GetFirst(choices.val)
        message == GetItem(choice.val, "message")
        content == GetItem(message.val, "content")
        role == GetItem(message.val, "role")
    IN  IF data.exc # "none" THEN data
        ELSE IF choices.exc # "none" THEN choices
        ELSE IF choice.exc # "none" THEN choice
        ELSE IF message.exc # "none" THEN message
        ELSE IF content.exc # "none" THEN content
        ELSE IF role.exc # "none" THEN role
        ELSE Ok([content |-> content.val,
                 role |-> role.val,
                 finish_reason |-> DictGet(choice.val, "finish_reason"),
                 usage |-> DictGet(data.val, "usage")])

\* lines 96-110: one request and what the try block makes of the answer
post_completion(r) ==
    IF r.kind = "transport" THEN Raise("TransportError")
    ELSE IF raise_for_status(r).exc # "none" THEN raise_for_status(r)
    ELSE CompletionResponse(r.body)

\* lines 38-39: max_retries or config.ai_service.max_retries
ResolveMaxRetries(arg, configured) == IF arg # 0 THEN arg ELSE configured

\* a retry loop that gives up at the first failure
IsLastAttemptNoRetry(a, m) == TRUE

\* lines 114, 118: the except clauses re-raise on the last attempt only
IsLastAttempt(a, m) == a = m - 1

\* a retry loop that keeps the first failure and raises that one at the end
ReraisedFirst(errs) == errs[1]

\* lines 115, 119: a bare raise re-raises the exception being handled
Reraised(errs) == errs[Len(errs)]

-----------------------------------------------------------------------------
(* The lines of a streamed response body, and the chunk decoder *)

\* a raw line: empty, "data: " followed by a payload, or any other text
BlankLine == [prefixed |-> FALSE, blank |-> TRUE]
OtherLine == [prefixed |-> FALSE, blank |-> FALSE]
DataLine(payload) == [prefixed |-> TRUE, blank |-> FALSE, payload |-> payload]
DoneLine == DataLine(BadText("[DONE]"))

\* data: {"choices":[{"delta": d}]}
DeltaEvent(d) == DataLine(JsonText(JObj([choices |-> JArr(<<JObj([delta |-> d])>>)])))
ContentEvent(text) == DeltaEvent(JObj([content |-> JStr(text)]))

HiThere == <<"h", "i", " ", "t", "h", "e", "r", "e">>

Lines ==
    << ContentEvent(<<"h">>),
       ContentEvent(<<"i">>),
       DeltaEvent(JObj([role |-> Assistant])),
       BlankLine,
       DoneLine,
       OtherLine,
       DataLine(BadText("{oops")),
       DataLine(JsonText(JObj([error |-> JStr(<<"e">>)]))),
       DataLine(JsonText(JObj([choices |-> JArr(<<>>)]))),
       DataLine(JsonText(JObj([choices |-> JArr(<<JObj([index |-> JNum(0)])>>)]))),
       DataLine(JsonText(JNull)),
       DeltaEvent(JNull),
       DeltaEvent(JObj([content |-> JNull])),
       ContentEvent(HiThere) >>

\* line 168: not line or line == "data: [DONE]"
IsIgnored(line) ==
    \/ line.blank
    \/ line.prefixed /\ ~line.payload.valid /\ line.payload.raw = "[DONE]"

\* line 178: the exceptions the decoder recovers from
IsRecovered(exc) == exc \in {"JSONDecodeError", "KeyError", "IndexError"}

\* lines 168-180: what the decoder does with one line:
\*   "skip" (nothing), "yield" (val is the chunk), "warn" (logged, skipped),
\*   "raise" (exc leaves the generator)
decode_line(line) ==
    IF IsIgnored(line) THEN [act |-> "skip"]
    ELSE IF ~line.prefixed THEN [act |-> "skip"]
    ELSE LET data == json_loads(line.payload)
             choices == GetItem(data.val, "choices")
             choice == GetFirst(choices.val)
             delta == GetItem(choice.val, "delta")
             has == HasContent(delta.val)
             failed == IF data.exc # "none" THEN data.exc
                       ELSE IF choices.exc # "none" THEN choices.exc
                       ELSE IF choice.exc # "none" THEN choice.exc
                       ELSE IF delta.exc # "none" THEN delta.exc
                       ELSE has.exc
         IN  IF failed # "none"
             THEN IF IsRecovered(failed) THEN [act |-> "warn", exc |-> failed]
                  ELSE [act |-> "raise", exc |-> failed]
             ELSE IF ~has.val THEN [act |-> "skip"]
             ELSE IF GetItem(delta.val, "content").exc # "none"
             THEN [act |-> "raise", exc |-> GetItem(delta.val, "content").exc]
             ELSE [act |-> "yield", val |-> GetItem(delta.val, "content").val]

\* an accumulation that puts the newest chunk in front
accumulatePrepend(buffer, chunk) ==
    IF chunk.t = "str" THEN Ok(chunk.v \o buffer) ELSE Raise("TypeError")

\* agent.py line 141: full_content += chunk (str + str, anything else is a TypeError)
accumulate(buffer, chunk) ==
    IF chunk.t = "str" THEN Ok(buffer \o chunk.v) ELSE Raise("TypeError")

-----------------------------------------------------------------------------
(* One Agent.chat call against a scripted provider *)

Unset == [t |-> "unset"]

\* what the provider does with one streamed request: refuse the connection, answer
\* with a status, then send lines and close the body or break the connection
StreamScripts ==
    {[open |-> "refused", status |-> 0, lines |-> <<>>, ending |-> "close"],
     [open |-> "answered", status |-> 500, lines |-> <<>>, ending |-> "close"]}
    \cup
    UNION {[open : {"answered"}, status : {200},
            lines : [1..n -> 1..Len(Lines)], ending : {"close", "broken"}]
           : n \in 0..MaxLines}

NoScript == [open |-> "refused", status |-> 0, lines |-> <<>>, ending |-> "close"]

ChatIdle ==
    /\ stream = FALSE
    /\ max_retries = 0
    /\ attempt = 0
    /\ calls = <<>>
    /\ errors = <<>>
    /\ script = NoScript
    /\ pos = 0
    /\ chunks = <<>>
    /\ warnings = 0
    /\ full_content = <<>>
    /\ printed = <<>>
    /\ chatPc = "idle"
    /\ completion = Unset
    /\ chatResult = Unset
    /\ chatError = Unset

ChatInit ==
    /\ stream \in BOOLEAN
    /\ \E arg \in 0..MaxRetries, configured \in 0..MaxRetries :
          max_retries = ResolveMaxRetries(arg, configured)
    /\ IF stream THEN script \in StreamScripts ELSE script = NoScript
    /\ attempt = 0
    /\ calls = <<>>
    /\ errors = <<>>
    /\ pos = 0
    /\ chunks = <<>>
    /\ warnings = 0
    /\ full_content = <<>>
    /\ printed = <<>>
    /\ chatPc = "call"
    /\ completion = Unset
    /\ chatResult = Unset
    /\ chatError = Unset

\* openai.py lines 94-119: one iteration of the retry loop, and agent.py line 153
complete_attempt ==
    /\ UNCHANGED <<replVars, managerVars>>
    /\ chatPc = "call"
    /\ ~stream
    /\ attempt < max_retries
    /\ \E i \in 1..Len(Responses) :
          LET r == post_completion(Responses[i])
              caught == Append(errors, [type |-> r.exc, attempt |-> attempt])
          IN  /\ calls' = Append(calls, i)
              /\ IF r.exc = "none"
                 THEN /\ completion' = r.val
                      /\ chatResult' = r.val.content
                      /\ chatPc' = "returned"
                      /\ UNCHANGED <<attempt, errors, chatError>>
                 ELSE /\ errors' = caught
                      /\ IF IsLastAttempt(attempt, max_retries)
                         THEN /\ chatPc' = "raised"
                              /\ chatError' = Reraised(caught)
                              /\ UNCHANGED attempt
                         ELSE /\ attempt' = attempt + 1
                              /\ UNCHANGED <<chatPc, chatError>>
                      /\ UNCHANGED <<completion, chatResult>>
    /\ UNCHANGED <<stream, max_retries, script, pos, chunks, warnings, full_content,
                   printed>>

\* openai.py line 121: the loop ended without returning or raising
complete_fallthrough ==
    /\ UNCHANGED <<replVars, managerVars>>
    /\ chatPc = "call"
    /\ ~stream
    /\ attempt >= max_retries
    /\ chatPc' = "raised"
    /\ chatError' = [type |-> "RuntimeError", attempt |-> -1]
    /\ UNCHANGED <<stream, max_retries, attempt, calls, errors, script, pos, chunks,
                   warnings, full_content, printed, completion, chatResult>>

\* a streamed request that is sent again, up to max_retries times, when it fails
stream_open_retrying ==
    /\ UNCHANGED <<replVars, managerVars>>
    /\ chatPc = "call"
    /\ stream
    /\ calls' = Append(calls, 0)
    /\ IF script.open = "answered" /\ raise_for_status(script).exc = "none"
       THEN /\ chatPc' = "lines"
            /\ UNCHANGED chatError
       ELSE IF Len(calls) + 1 < max_retries
       THEN UNCHANGED <<chatPc, chatError>>
       ELSE /\ chatPc' = "raised"
            /\ chatError' = [type |-> "TransportError", where |-> "complete_stream"]
    /\ UNCHANGED <<stream, max_retries, attempt, errors, script, pos, chunks, warnings,
                   full_content, printed, completion, chatResult>>

\* openai.py lines 164-165: open the streamed response
stream_open ==
    /\ UNCHANGED <<replVars, managerVars>>
    /\ chatPc = "call"
    /\ stream
    /\ calls' = Append(calls, 0)
    /\ IF script.open = "refused"
       THEN /\ chatPc' = "raised"
            /\ chatError' = [type |-> "TransportError", where |-> "complete_stream"]
       ELSE IF raise_for_status(script).exc # "none"
       THEN /\ chatPc' = "raised"
            /\ chatError' = [type |-> "HTTPStatusError", where |-> "complete_stream"]
       ELSE /\ chatPc' = "lines"
            /\ UNCHANGED chatError
    /\ UNCHANGED <<stream, max_retries, attempt, errors, script, pos, chunks, warnings,
                   full_content, printed, completion, chatResult>>

\* openai.py lines 167-180 for one line, with the consumer's loop body
\* (agent.py lines 141-142) when the line yields a chunk
stream_line ==
    /\ UNCHANGED <<replVars, managerVars>>
    /\ chatPc = "lines"
    /\ pos < Len(script.lines)
    /\ pos' = pos + 1
    /\ LET d == decode_line(Lines[script.lines[pos + 1]])
       IN  CASE d.act = "skip" ->
                  UNCHANGED <<chunks, warnings, full_content, printed, chatPc, chatError>>
             [] d.act = "warn" ->
                  /\ warnings' = warnings + 1
                  /\ UNCHANGED <<chunks, full_content, printed, chatPc, chatError>>
             [] d.act = "raise" ->
                  /\ chatPc' = "raised"
                  /\ chatError' = [type |-> d.exc, where |-> "complete_stream"]
                  /\ UNCHANGED <<chunks, warnings, full_content, printed>>
             [] d.act = "yield" ->
                  /\ chunks' = Append(chunks, d.val)
                  /\ UNCHANGED warnings
                  /\ IF accumulate(full_content, d.val).exc = "none"
                     THEN /\ full_content' = accumulate(full_content, d.val).val
                          /\ printed' = Append(printed, d.val)
                          /\ UNCHANGED <<chatPc, chatError>>
                     ELSE /\ chatPc' = "raised"
                          /\ chatError' = [type |-> accumulate(full_content, d.val).exc,
                                           where |-> "chat"]
                          /\ UNCHANGED <<full_content, printed>>
    /\ UNCHANGED <<stream, max_retries, attempt, calls, errors, script, completion,
                   chatResult>>

\* the response body ends: aiter_lines is exhausted (agent.py lines 143-144), or the
\* connection breaks and aiter_lines raises
stream_end ==
    /\ UNCHANGED <<replVars, managerVars>>
    /\ chatPc = "lines"
    /\ pos = Len(script.lines)
    /\ IF script.ending = "close"
       THEN /\ chatPc' = "returned"
            /\ chatResult' = JStr(full_content)
            /\ UNCHANGED chatError
       ELSE /\ chatPc' = "raised"
            /\ chatError' = [type |-> "TransportError", where |-> "complete_stream"]
            /\ UNCHANGED chatResult
    /\ UNCHANGED <<stream, max_retries, attempt, calls, errors, script, pos, chunks,
                   warnings, full_content, printed, completion>>

ChatNext ==
    \/ complete_attempt
    \/ complete_fallthrough
    \/ stream_open
    \/ stream_line
    \/ stream_end

-----------------------------------------------------------------------------
(* Text operations of the REPL *)

IsSpace(c) == c = " "

RECURSIVE lstrip(_)
lstrip(s) == IF s # <<>> /\ IsSpace(Head(s)) THEN lstrip(Tail(s)) ELSE s

RECURSIVE rstrip(_)
rstrip(s) ==
    IF s # <<>> /\ IsSpace(s[Len(s)]) THEN rstrip(SubSeq(s, 1, Len(s) - 1)) ELSE s

\* a strip that only removes leading whitespace
stripLeftOnly(s) == lstrip(s)

\* str.strip()
strip(s) == rstrip(lstrip(s))

\* the first whitespace-free run of s (s does not start with whitespace)
RECURSIVE FirstWord(_)
FirstWord(s) ==
    IF s = <<>> \/ IsSpace(Head(s)) THEN <<>> ELSE <<Head(s)>> \o FirstWord(Tail(s))

\* str.split(): the whitespace-separated words of s
RECURSIVE split(_)
split(s) ==
    LET t == lstrip(s)
        w == FirstWord(t)
    IN  IF t = <<>> THEN <<>>
        ELSE <<w>> \o split(SubSeq(t, Len(w) + 1, Len(t)))

UpperCase == <<"A", "B", "C", "D", "E", "F", "G", "H", "I", "J", "K", "L", "M",
               "N", "O", "P", "Q", "R", "S", "T", "U", "V", "W", "X", "Y", "Z">>
LowerCase == <<"a", "b", "c", "d", "e", "f", "g", "h", "i", "j", "k", "l", "m",
               "n", "o", "p", "q", "r", "s", "t", "u", "v", "w", "x", "y", "z">>

LowerChar(c) ==
    IF \E i \in 1..Len(UpperCase) : UpperCase[i] = c
    THEN LowerCase[CHOOSE i \in 1..Len(UpperCase) : UpperCase[i] = c]
    ELSE c

\* str.lower()
lower(s) == [i \in 1..Len(s) |-> LowerChar(s[i])]

\* a prompt loop that takes no input for a command
IsCommandNever(s) == FALSE

\* s.startswith("/")
IsCommand(s) == s # <<>> /\ Head(s) = "/"

-----------------------------------------------------------------------------
(* Agents, messages and the sessions table *)

\* agent.py lines 18-23
DEFAULT_SYSTEM_PROMPTS ==
    [general |-> <<"You are a helpful AI assistant.">>,
     developer |-> <<"You are an expert software developer assistant">>,
     devops |-> <<"You are a DevOps expert">>,
     data_analyst |-> <<"You are a data analysis expert">>]

\* the rows of the agents table
AgentRows ==
    << [id |-> "id-a", name |-> <<"a">>, type |-> "general", config |-> <<>>],
       [id |-> "id-b", name |-> <<"b">>, type |-> "developer",
        config |-> [system_prompt |-> <<"Be", "brief">>]],
       [id |-> "id-c", name |-> <<"c">>, type |-> "reviewer", config |-> <<>>] >>

\* a lookup that falls back to the first row for a name no agent has
get_agent_or_first(name) ==
    IF \E i \in 1..Len(AgentRows) : AgentRows[i].name = name
    THEN CHOOSE i \in 1..Len(AgentRows) : AgentRows[i].name = name
    ELSE 1

\* AgentManager.get_agent: the row with that name, 0 for None
get_agent(name) ==
    IF \E i \in 1..Len(AgentRows) : AgentRows[i].name = name
    THEN CHOOSE i \in 1..Len(AgentRows) : AgentRows[i].name = name
    ELSE 0

\* Agent.get_system_prompt
get_system_prompt(a) ==
    IF "system_prompt" \in DOMAIN AgentRows[a].config
    THEN AgentRows[a].config.system_prompt
    ELSE IF AgentRows[a].type \in DOMAIN DEFAULT_SYSTEM_PROMPTS
    THEN DEFAULT_SYSTEM_PROMPTS[AgentRows[a].type]
    ELSE DEFAULT_SYSTEM_PROMPTS["general"]

Message(role, content) == [role |-> role, content |-> content]

\* a list that lacks the system message
build_messages_no_system(a, message, history) ==
    history \o <<Message("user", message)>>

\* agent.py lines 113-124: [system] + history + [user]
build_messages(a, message, history) ==
    <<Message("system", get_system_prompt(a))>> \o history
        \o <<Message("user", message)>>

\* a history that still holds the message just appended
history_arg_all(msgs) == msgs

\* repl line 170: self.messages[:-1]
history_arg(msgs) == SubSeq(msgs, 1, Len(msgs) - 1)

\* repl lines 115-122 without the timestamps: the stored role/content pairs
messages_data(msgs) == [i \in 1..Len(msgs) |-> [role |-> msgs[i].role,
                                                 content |-> msgs[i].content]]

HasSession(table, id) == \E i \in 1..Len(table) : table[i].id = id

\* repl lines 104-140: the sessions table after save_session.  Nothing is written
\* for an empty transcript; the INSERT of a row whose primary key is already in
\* the table fails, and the except clause reports it and leaves the table as it was
save_session(table, id, a, msgs) ==
    IF msgs = <<>> THEN table
    ELSE IF HasSession(table, id) THEN table
    ELSE Append(table, [id |-> id, agent_id |-> AgentRows[a].id,
                        messages |-> messages_data(msgs)])

\* what save_session prints
save_report(table, id, msgs) ==
    IF msgs = <<>> THEN "no_messages"
    ELSE IF HasSession(table, id) THEN "save_failed"
    ELSE "saved"

\* repl lines 186-189: the auto-save of the finally block
teardown_sessions(table, id, a, msgs, enabled) ==
    IF enabled /\ msgs # <<>> THEN save_session(table, id, a, msgs) ELSE table

-----------------------------------------------------------------------------
(* The REPL session *)

\* raw input lines typed at the prompt
Hello == <<"h", "e", "l", "l", "o">>

Inputs ==
    << <<" ", "h", "i", " ">>,
       Hello,
       <<" ">>,
       <<"/", "c", "l", "e", "a", "r">>,
       <<"/", "C", "l", "e", "a", "r", " ">>,
       <<"/", "s", "a", "v", "e">>,
       <<"/", "a", "g", "e", "n", "t", " ", "b">>,
       <<"/", "a", "g", "e", "n", "t", " ", "c">>,
       <<"/", "a", "g", "e", "n", "t", " ", "z">>,
       <<"/", "a", "g", "e", "n", "t">>,
       <<"/", "h", "i", "s", "t", "o", "r", "y">>,
       <<"/", "h", "e", "l", "p">>,
       <<"/", "e", "x", "i", "t">>,
       <<"/", "q", "u", "i", "t">>,
       <<"/", "h", "i">> >>

\* what the provider does with the request of one REPL turn
TurnScripts ==
    {[open |-> "refused", status |-> 0, lines |-> <<>>, ending |-> "close"],
     [open |-> "answered", status |-> 500, lines |-> <<>>, ending |-> "close"],
     [open |-> "answered", status |-> 200, lines |-> <<1, 2>>, ending |-> "close"],
     [open |-> "answered", status |-> 200, lines |-> <<14, 5>>, ending |-> "close"],
     [open |-> "answered", status |-> 200, lines |-> <<1>>, ending |-> "broken"],
     [open |-> "answered", status |-> 200, lines |-> <<1, 11>>, ending |-> "close"]}

\* the first word of a command line, lower-cased (repl lines 201-202)
command_name(text) == lower(split(text)[1])

\* repl line 151 for each input line
Stripped == [i \in 1..Len(Inputs) |-> strip(Inputs[i])]

\* repl line 201 for each input line
Parts == [i \in 1..Len(Inputs) |-> split(Stripped[i])]

\* repl line 202 for each command line
Command == [i \in 1..Len(Inputs) |->
               IF IsCommand(Stripped[i]) THEN command_name(Stripped[i]) ELSE <<>>]

CmdExit == <<"/", "e", "x", "i", "t">>
CmdQuit == <<"/", "q", "u", "i", "t">>
CmdHelp == <<"/", "h", "e", "l", "p">>
CmdClear == <<"/", "c", "l", "e", "a", "r">>
CmdSave == <<"/", "s", "a", "v", "e">>
CmdHistory == <<"/", "h", "i", "s", "t", "o", "r", "y">>
CmdAgent == <<"/", "a", "g", "e", "n", "t">>

\* a history printer without the empty case
print_history_always(msgs) == "history"

\* repl lines 92-102: what print_history prints
print_history(msgs) == IF msgs = <<>> THEN "no_messages_yet" ELSE "history"

\* repl lines 35-58: the session starts with the configured default agent, a fresh
\* session id and an empty transcript
ReplInit ==
    /\ pc = "Reading"
    /\ messages = <<>>
    /\ agent = 1
    /\ session_id = 1
    /\ next_uuid = 2
    /\ sessions = <<>>
    /\ auto_save \in BOOLEAN
    /\ api_key \in BOOLEAN
    /\ ai_service = FALSE
    /\ open_clients = 0
    /\ inputs_read = 0
    /\ last_input = 0
    /\ before_turn = <<>>
    /\ last_call = Unset
    /\ last_sent = <<>>
    /\ turn = "none"
    /\ console = "welcome"
    /\ exit_code = -1

\* openai.py line 21: the max_retries of an OpenAIService built without arguments
DefaultMaxRetries == 3

\* the chat-call variables between two turns
ChatReset ==
    /\ stream' = FALSE
    /\ max_retries' = 0
    /\ attempt' = 0
    /\ calls' = <<>>
    /\ errors' = <<>>
    /\ script' = NoScript
    /\ pos' = 0
    /\ chunks' = <<>>
    /\ warnings' = 0
    /\ full_content' = <<>>
    /\ printed' = <<>>
    /\ chatPc' = "idle"
    /\ completion' = Unset
    /\ chatError' = Unset
    /\ UNCHANGED managerVars

\* an input line is read at the prompt (repl lines 150-151)
Prompted(i) ==
    /\ pc = "Reading"
    /\ inputs_read < MaxInputs
    /\ inputs_read' = inputs_read + 1
    /\ last_input' = i
    /\ before_turn' = messages
    /\ UNCHANGED managerVars

\* the exit status of the repl command: 0 when start_repl returns, 1 from the
\* sys.exit(1) of start_repl (repl lines 257-260).  A KeyboardInterrupt leaves
\* start_repl and reaches the click group that cli(obj={}) at cli.py line 323 runs
\* in standalone mode; click turns it into Abort and exits with status 1 before
\* the except clause of main (cli.py lines 324-326) can see it
exit_status(how) ==
    CASE how = "return" -> 0
      [] how = "Exception" -> 1
      [] how = "KeyboardInterrupt" -> 1

\* a teardown after which the prompt loop goes on
TeardownKeepsReading(msgs, code) ==
    /\ sessions' = teardown_sessions(sessions, session_id, agent, msgs, auto_save)
    /\ pc' = "Reading"
    /\ exit_code' = code

\* repl lines 186-193 and start_repl: the finally block, then the process ends
\* with the given exit code
Teardown(msgs, code) ==
    /\ sessions' = teardown_sessions(sessions, session_id, agent, msgs, auto_save)
    /\ pc' = "Closed"
    /\ exit_code' = code

\* repl lines 153-154: the input is empty after strip
prompt_blank ==
    \E i \in 1..Len(Inputs) :
        /\ Prompted(i)
        /\ Stripped[i] = <<>>
        /\ console' = "none"
        /\ turn' = "none"
        /\ UNCHANGED <<pc, messages, agent, session_id, next_uuid, sessions, auto_save,
                       api_key, ai_service, open_clients, last_call, last_sent,
                       exit_code>>
        /\ UNCHANGED chatVars

\* repl lines 161-172 and agent.py lines 113-140: a plain input is appended to the
\* transcript and Agent.chat is called; chat builds the message list, takes the
\* agent's OpenAIService (created on first use, a ValueError without an API key)
\* and hands the list to complete_stream
prompt_plain ==
    \E i \in 1..Len(Inputs) :
        LET text == Stripped[i]
            appended == Append(messages, Message("user", text))
            history == history_arg(appended)
        IN  /\ Prompted(i)
            /\ text # <<>>
            /\ ~IsCommand(text)
            /\ messages' = appended
            /\ last_call' = [message |-> text, history |-> history, stream |-> TRUE]
            /\ pc' = "Streaming"
            /\ turn' = "streaming"
            /\ console' = "assistant"
            /\ IF ai_service \/ api_key
               THEN /\ ai_service' = TRUE
                    /\ open_clients' = IF ai_service THEN open_clients
                                       ELSE open_clients + 1
                    /\ last_sent' = build_messages(agent, text, history)
                    /\ script' \in TurnScripts
                    /\ stream' = TRUE
                    /\ max_retries' = DefaultMaxRetries
                    /\ chatPc' = "call"
                    /\ chatError' = Unset
               ELSE /\ UNCHANGED <<ai_service, open_clients, last_sent, script, stream,
                                   max_retries>>
                    /\ chatPc' = "raised"
                    /\ chatError' = [type |-> "ValueError", where |-> "chat"]
            /\ chatResult' = Unset
            /\ UNCHANGED <<attempt, calls, errors, pos, chunks, warnings, full_content,
                           printed, completion>>
            /\ UNCHANGED <<agent, session_id, next_uuid, sessions, auto_save, api_key,
                           exit_code>>

\* repl lines 174-178: Agent.chat returned; its text becomes the assistant message
turn_returns ==
    /\ pc = "Streaming"
    /\ chatPc = "returned"
    /\ messages' = Append(messages, Message("assistant", chatResult.v))
    /\ pc' = "Reading"
    /\ turn' = "ok"
    /\ console' = "none"
    /\ ChatReset
    /\ UNCHANGED <<chatResult, agent, session_id, next_uuid, sessions, auto_save, api_key,
                   ai_service, open_clients, inputs_read, last_input, before_turn,
                   last_call, last_sent, exit_code>>

\* Agent.chat raised: neither except clause of the loop (repl lines 180-184) takes
\* an Exception, so it leaves the loop through the finally block and start_repl
\* (repl lines 257-260) reports it and exits with status 1
turn_raises ==
    /\ pc = "Streaming"
    /\ chatPc = "raised"
    /\ Teardown(messages, exit_status("Exception"))
    /\ turn' = "failed"
    /\ console' = "error"
    /\ ChatReset
    /\ UNCHANGED <<chatResult, messages, agent, session_id, next_uuid, auto_save, api_key,
                   ai_service, open_clients, inputs_read, last_input, before_turn,
                   last_call, last_sent>>

\* Ctrl-C during the turn, delivered to the event loop: the task is cancelled, the
\* finally block runs and KeyboardInterrupt leaves asyncio.run
turn_interrupt_propagates ==
    /\ pc = "Streaming"
    /\ chatPc \in {"call", "lines"}
    /\ Teardown(messages, exit_status("KeyboardInterrupt"))
    /\ turn' = "interrupted"
    /\ console' = "interrupted"
    /\ ChatReset
    /\ UNCHANGED <<chatResult, messages, agent, session_id, next_uuid, auto_save, api_key,
                   ai_service, open_clients, inputs_read, last_input, before_turn,
                   last_call, last_sent>>

\* Ctrl-C during the turn, raised as KeyboardInterrupt while the task's own code
\* runs: the except clause at repl lines 180-182 takes it and the loop goes on
turn_interrupt_caught ==
    /\ pc = "Streaming"
    /\ chatPc \in {"call", "lines"}
    /\ pc' = "Reading"
    /\ turn' = "interrupted"
    /\ console' = "hint"
    /\ ChatReset
    /\ UNCHANGED <<chatResult, messages, agent, session_id, next_uuid, sessions, auto_save,
                   api_key, ai_service, open_clients, inputs_read, last_input,
                   before_turn, last_call, last_sent, exit_code>>

\* a prompt that treats Ctrl-C like end of input
prompt_interrupt_as_eof ==
    /\ pc = "Reading"
    /\ Teardown(messages, exit_status("return"))
    /\ console' = "hint"
    /\ turn' = "none"
    /\ UNCHANGED <<messages, agent, session_id, next_uuid, auto_save, api_key,
                   ai_service, open_clients, inputs_read, last_input, before_turn,
                   last_call, last_sent>>
    /\ UNCHANGED <<chatVars, managerVars>>

\* Ctrl-C at the prompt (repl lines 180-182)
prompt_interrupt ==
    /\ pc = "Reading"
    /\ console' = "hint"
    /\ turn' = "none"
    /\ UNCHANGED <<pc, messages, agent, session_id, next_uuid, sessions, auto_save,
                   api_key, ai_service, open_clients, inputs_read, last_input,
                   before_turn, last_call, last_sent, exit_code>>
    /\ UNCHANGED <<chatVars, managerVars>>

\* end of input at the prompt (repl lines 183-193)
prompt_eof ==
    /\ pc = "Reading"
    /\ Teardown(messages, exit_status("return"))
    /\ console' = "goodbye"
    /\ turn' = "none"
    /\ UNCHANGED <<messages, agent, session_id, next_uuid, auto_save, api_key,
                   ai_service, open_clients, inputs_read, last_input, before_turn,
                   last_call, last_sent>>
    /\ UNCHANGED <<chatVars, managerVars>>

\* a command line is read and handle_command is entered (repl lines 156-159)
Commanded(i) ==
    /\ Prompted(i)
    /\ IsCommand(Stripped[i])
    /\ turn' = "none"
    /\ UNCHANGED chatVars
    /\ UNCHANGED <<auto_save, api_key, open_clients, last_call, last_sent>>

\* repl lines 204-205, then 183-193
cmd_exit ==
    \E i \in 1..Len(Inputs) :
        /\ Commanded(i)
        /\ Command[i] \in {CmdExit, CmdQuit}
        /\ Teardown(messages, exit_status("return"))
        /\ console' = "goodbye"
        /\ UNCHANGED <<messages, agent, session_id, next_uuid, ai_service>>

\* repl lines 207-208
cmd_help ==
    \E i \in 1..Len(Inputs) :
        /\ Commanded(i)
        /\ Command[i] = CmdHelp
        /\ console' = "help"
        /\ UNCHANGED <<pc, messages, agent, session_id, next_uuid, sessions, ai_service,
                       exit_code>>

\* repl lines 210-212
cmd_clear ==
    \E i \in 1..Len(Inputs) :
        /\ Commanded(i)
        /\ Command[i] = CmdClear
        /\ messages' = <<>>
        /\ console' = "cleared"
        /\ UNCHANGED <<pc, agent, session_id, next_uuid, sessions, ai_service, exit_code>>

\* repl lines 214-215
cmd_save ==
    \E i \in 1..Len(Inputs) :
        /\ Commanded(i)
        /\ Command[i] = CmdSave
        /\ sessions' = save_session(sessions, session_id, agent, messages)
        /\ console' = save_report(sessions, session_id, messages)
        /\ UNCHANGED <<pc, messages, agent, session_id, next_uuid, ai_service, exit_code>>

\* repl lines 217-218
cmd_history ==
    \E i \in 1..Len(Inputs) :
        /\ Commanded(i)
        /\ Command[i] = CmdHistory
        /\ console' = print_history(messages)
        /\ UNCHANGED <<pc, messages, agent, session_id, next_uuid, sessions, ai_service,
                       exit_code>>

\* repl lines 220-236: /agent with the name of an existing agent
cmd_agent_switch ==
    \E i \in 1..Len(Inputs) :
        LET parts == Parts[i]
        IN  /\ Commanded(i)
            /\ Command[i] = CmdAgent
            /\ Len(parts) > 1
            /\ get_agent(parts[2]) # 0
            /\ sessions' = teardown_sessions(sessions, session_id, agent, messages,
                                             auto_save)
            /\ agent' = get_agent(parts[2])
            /\ ai_service' = FALSE
            /\ session_id' = next_uuid
            /\ next_uuid' = next_uuid + 1
            /\ messages' = <<>>
            /\ console' = "switched"
            /\ UNCHANGED <<pc, exit_code>>

\* repl lines 237-238: /agent with a name no agent has
cmd_agent_unknown ==
    \E i \in 1..Len(Inputs) :
        LET parts == Parts[i]
        IN  /\ Commanded(i)
            /\ Command[i] = CmdAgent
            /\ Len(parts) > 1
            /\ get_agent(parts[2]) = 0
            /\ console' = "agent_not_found"
            /\ UNCHANGED <<pc, messages, agent, session_id, next_uuid, sessions,
                           ai_service, exit_code>>

\* repl lines 239-241: /agent alone
cmd_agent_show ==
    \E i \in 1..Len(Inputs) :
        /\ Commanded(i)
        /\ Command[i] = CmdAgent
        /\ Len(Parts[i]) = 1
        /\ console' = "current_agent"
        /\ UNCHANGED <<pc, messages, agent, session_id, next_uuid, sessions, ai_service,
                       exit_code>>

\* repl lines 243-245
cmd_unknown ==
    \E i \in 1..Len(Inputs) :
        /\ Commanded(i)
        /\ Command[i] \notin
               {CmdExit, CmdQuit, CmdHelp, CmdClear, CmdSave, CmdHistory, CmdAgent}
        /\ console' = "unknown_command"
        /\ UNCHANGED <<pc, messages, agent, session_id, next_uuid, sessions, ai_service,
                       exit_code>>

-----------------------------------------------------------------------------
(* The agent store: AgentManager, Agent.get_system_prompt, validate_connection *)

\* an agent configuration without keys
EmptyConfig == [k \in {} |-> JNull]

\* the config dictionaries given to create_agent and update_agent
AgentConfigs ==
    << EmptyConfig,
       [system_prompt |-> JStr(<<"Be", "brief">>)],
       [system_prompt |-> JNull],
       [model |-> JStr(<<"m">>)] >>

AgentNames == {<<"a">>, <<"b">>}

AgentTypes == {"general", "developer", "devops", "data_analyst", "reviewer"}

\* None, as an argument or a return value
None == JNull

\* a query that finds no row for a name that is stored
find_agent_never(table, name) == 0

\* query(AgentModel).filter_by(name=name).first(): the row's position, 0 for None
find_agent(table, name) ==
    IF \E i \in 1..Len(table) : table[i].name = name
    THEN CHOOSE i \in 1..Len(table) :
             /\ table[i].name = name
             /\ \A j \in 1..(i - 1) : table[j].name # name
    ELSE 0

\* agent.py line 219: config or {}
config_or_empty(c) == IF c = 0 THEN EmptyConfig ELSE AgentConfigs[c]

\* agent.py lines 213-221: the row create_agent inserts
new_agent(id, name, type, c) ==
    [id |-> id, name |-> name, type |-> type, config |-> config_or_empty(c),
     status |-> "enabled"]

\* agent.py lines 299-304: the row after update_agent's assignments
updated_agent(row, c, status) ==
    [row EXCEPT !.config = IF c = 0 THEN @ ELSE AgentConfigs[c],
                !.status = IF status = "None" THEN @ ELSE status]

\* a table without its i-th row
remove_row(table, i) == SubSeq(table, 1, i - 1) \o SubSeq(table, i + 1, Len(table))

\* a delete that reports success but leaves the row in the table
delete_agent_rows_kept(table, name) == table

\* agent.py lines 323-328: the table after delete_agent
delete_agent_rows(table, name) ==
    IF find_agent(table, name) = 0 THEN table
    ELSE remove_row(table, find_agent(table, name))

\* agent.py lines 90-95, for an agent whose config values are JSON documents
Agent_get_system_prompt(type, config) ==
    IF "system_prompt" \in DOMAIN config THEN config.system_prompt
    ELSE IF type \in DOMAIN DEFAULT_SYSTEM_PROMPTS
    THEN JStr(DEFAULT_SYSTEM_PROMPTS[type])
    ELSE JStr(DEFAULT_SYSTEM_PROMPTS["general"])

\* the provider's answers to GET /models
Timeout == [kind |-> "timeout"]

ModelsResponses ==
    << TransportFailure,
       Timeout,
       HttpResponse(200, JsonText(JObj([data |-> JArr(<<>>)]))),
       HttpResponse(204, BadText("")),
       HttpResponse(401, JsonText(JObj([error |-> JStr(<<"e">>)]))),
       HttpResponse(404, BadText("not found")),
       HttpResponse(500, BadText("gateway")) >>

\* openai.py lines 189-190: the request and the status check
get_models(r) ==
    CASE r.kind = "transport" -> Raise("TransportError")
      [] r.kind = "timeout" -> Raise("TimeoutException")
      [] OTHER -> raise_for_status(r)

\* the classes "except Exception" takes
IsException(e) == e \notin {"KeyboardInterrupt", "SystemExit", "CancelledError"}

\* a validation that lets the failure of the request through
validate_connection_propagating(r) ==
    IF get_models(r).exc = "none" THEN Ok(TRUE) ELSE get_models(r)

\* openai.py lines 188-194
validate_connection(r) ==
    IF get_models(r).exc = "none" THEN Ok(TRUE)
    ELSE IF IsException(get_models(r).exc) THEN Ok(FALSE)
    ELSE get_models(r)

ManagerIdle ==
    /\ store = <<>>
    /\ agent_uuid = 1
    /\ ops = 0
    /\ outcome = [op |-> "none"]

\* one more call is made on the store
Called ==
    /\ ops < MaxOps
    /\ ops' = ops + 1
    /\ UNCHANGED <<chatVars, replVars>>

\* agent.py lines 186-228
create_agent ==
    \E name \in AgentNames, type \in AgentTypes, c \in 0..Len(AgentConfigs) :
        /\ Called
        /\ IF find_agent(store, name) # 0
           THEN /\ outcome' = [op |-> "create_agent", name |-> name, before |-> store,
                               ret |-> Raise("ValueError")]
                /\ UNCHANGED <<store, agent_uuid>>
           ELSE /\ store' = Append(store, new_agent(agent_uuid, name, type, c))
                /\ agent_uuid' = agent_uuid + 1
                /\ outcome' = [op |-> "create_agent", name |-> name, before |-> store,
                               ret |-> Ok(new_agent(agent_uuid, name, type, c))]

\* agent.py lines 229-242: AgentManager.get_agent
AgentManager_get_agent ==
    \E name \in AgentNames :
        /\ Called
        /\ outcome' = [op |-> "get_agent", name |-> name, before |-> store,
                       ret |-> IF find_agent(store, name) = 0 THEN Ok(None)
                               ELSE Ok(store[find_agent(store, name)])]
        /\ UNCHANGED <<store, agent_uuid>>

\* agent.py lines 271-312
update_agent ==
    \E name \in AgentNames, c \in 0..Len(AgentConfigs),
       status \in {"None", "enabled", "disabled"} :
        LET i == find_agent(store, name)
        IN  /\ Called
            /\ IF i = 0
               THEN /\ outcome' = [op |-> "update_agent", name |-> name,
                                   before |-> store, ret |-> Raise("ValueError")]
                    /\ UNCHANGED store
               ELSE /\ store' = [store EXCEPT ![i] = updated_agent(@, c, status)]
                    /\ outcome' = [op |-> "update_agent", name |-> name,
                                   before |-> store,
                                   ret |-> Ok(updated_agent(store[i], c, status))]
            /\ UNCHANGED agent_uuid

\* agent.py lines 314-332
delete_agent ==
    \E name \in AgentNames :
        /\ Called
        /\ store' = delete_agent_rows(store, name)
        /\ outcome' = [op |-> "delete_agent", name |-> name, before |-> store,
                       ret |-> Ok(find_agent(store, name) # 0)]
        /\ UNCHANGED agent_uuid

\* Agent.get_system_prompt of a stored agent (agent.py lines 84-95)
call_get_system_prompt ==
    \E i \in 1..Len(store) :
        /\ Called
        /\ outcome' = [op |-> "get_system_prompt", name |-> store[i].name,
                       before |-> store,
                       ret |-> Ok(Agent_get_system_prompt(store[i].type,
                                                          store[i].config))]
        /\ UNCHANGED <<store, agent_uuid>>

\* OpenAIService.validate_connection against one answer of the provider
call_validate_connection ==
    \E i \in 1..Len(ModelsResponses) :
        /\ Called
        /\ outcome' = [op |-> "validate_connection", probe |-> i, before |-> store,
                       ret |-> validate_connection(ModelsResponses[i])]
        /\ UNCHANGED <<store, agent_uuid>>

ManagerNext ==
    \/ create_agent
    \/ AgentManager_get_agent
    \/ update_agent
    \/ delete_agent
    \/ call_get_system_prompt
    \/ call_validate_connection

Init == ReplInit /\ ChatIdle /\ ManagerIdle

Next ==
    \/ prompt_blank
    \/ prompt_plain
    \/ stream_open
    \/ stream_line
    \/ stream_end
    \/ turn_returns
    \/ turn_raises
    \/ turn_interrupt_propagates
    \/ turn_interrupt_caught
    \/ prompt_interrupt
    \/ prompt_eof
    \/ cmd_exit
    \/ cmd_help
    \/ cmd_clear
    \/ cmd_save
    \/ cmd_history
    \/ cmd_agent_switch
    \/ cmd_agent_unknown
    \/ cmd_agent_show
    \/ cmd_unknown

Spec == Init /\ [][Next]_vars

-----------------------------------------------------------------------------
(* Specification of a single chat call *)

ReplIdle ==
    /\ pc = "Closed"
    /\ messages = <<>>
    /\ agent = 1
    /\ session_id = 0
    /\ next_uuid = 1
    /\ sessions = <<>>
    /\ auto_save = TRUE
    /\ api_key = TRUE
    /\ ai_service = FALSE
    /\ open_clients = 0
    /\ inputs_read = 0
    /\ last_input = 0
    /\ before_turn = <<>>
    /\ last_call = Unset
    /\ last_sent = <<>>
    /\ turn = "none"
    /\ console = "none"
    /\ exit_code = -1

InitChat == ChatInit /\ ReplIdle /\ ManagerIdle

SpecChat == InitChat /\ [][ChatNext]_vars

-----------------------------------------------------------------------------
(* Specification of the calls on the agent store *)

InitManager == ManagerIdle /\ ChatIdle /\ ReplIdle

SpecManager == InitManager /\ [][ManagerNext]_vars

-----------------------------------------------------------------------------
(* Vocabulary of the properties of a chat call *)

\* a request that fails: a transport error or a non-2xx status
Fails(r) == r.kind = "transport" \/ r.status < 200 \/ r.status > 299

\* a 2xx answer whose body holds choices[0].message with content and role
IsCompletion(r) ==
    /\ r.kind = "http"
    /\ ~Fails(r)
    /\ r.body.valid
    /\ r.body.doc.t = "obj"
    /\ "choices" \in DOMAIN r.body.doc.v
    /\ r.body.doc.v.choices.t = "arr"
    /\ Len(r.body.doc.v.choices.v) > 0
    /\ r.body.doc.v.choices.v[1].t = "obj"
    /\ "message" \in DOMAIN r.body.doc.v.choices.v[1].v
    /\ r.body.doc.v.choices.v[1].v.message.t = "obj"
    /\ {"content", "role"} \subseteq DOMAIN r.body.doc.v.choices.v[1].v.message.v

\* the content such an answer carries
CarriedContent(r) == r.body.doc.v.choices.v[1].v.message.v.content

\* the exception a failing request stands for
FailureType(r) == IF r.kind = "transport" THEN "TransportError" ELSE "HTTPStatusError"

Call(i) == Responses[calls[i]]

AllFailed(n) == \A i \in 1..n : Fails(Call(i))

\* a data line holding choices[0].delta as an object
IsEvent(line) ==
    /\ line.prefixed
    /\ line.payload.valid
    /\ line.payload.doc.t = "obj"
    /\ "choices" \in DOMAIN line.payload.doc.v
    /\ line.payload.doc.v.choices.t = "arr"
    /\ Len(line.payload.doc.v.choices.v) > 0
    /\ line.payload.doc.v.choices.v[1].t = "obj"
    /\ "delta" \in DOMAIN line.payload.doc.v.choices.v[1].v
    /\ line.payload.doc.v.choices.v[1].v.delta.t = "obj"

EventDelta(line) == line.payload.doc.v.choices.v[1].v.delta.v

IsSentinel(line) == line.prefixed /\ ~line.payload.valid /\ line.payload.raw = "[DONE]"

\* a data line that is neither the sentinel nor an event
IsMalformed(line) == line.prefixed /\ ~IsSentinel(line) /\ ~IsEvent(line)

\* the content values of the events among the lines numbered ls, in order
RECURSIVE EventContents(_)
EventContents(ls) ==
    IF ls = <<>> THEN <<>>
    ELSE LET line == Lines[Head(ls)]
         IN  IF IsEvent(line) /\ "content" \in DOMAIN EventDelta(line)
             THEN <<EventDelta(line).content>> \o EventContents(Tail(ls))
             ELSE EventContents(Tail(ls))

\* the text a sequence of string chunks spells
RECURSIVE Joined(_)
Joined(cs) == IF cs = <<>> THEN <<>> ELSE Head(cs).v \o Joined(Tail(cs))

Taken == SubSeq(script.lines, 1, pos)

Ended == chatPc \in {"returned", "raised"}

-----------------------------------------------------------------------------
(* Properties of complete() *)

\* C1: for max_retries >= 1 and k < max_retries: when the first k requests of one
\* complete() call fail (transport error or non-2xx) and the next succeeds, the call
\* returns that successful result after exactly k+1 requests and sends no request
\* after the successful one.  While fewer than max_retries requests have been sent
\* and all of them failed, the call is still running and about to send the next.
C1_RetryThenSuccess ==
    (~stream /\ chatPc # "idle" /\ max_retries >= 1) =>
        /\ \A i \in 1..(Len(calls) - 1) : ~IsCompletion(Call(i))
        /\ Len(calls) <= max_retries
        /\ (Len(calls) < max_retries /\ AllFailed(Len(calls))) =>
               (chatPc = "call" /\ attempt = Len(calls))
        /\ (Len(calls) >= 1 /\ AllFailed(Len(calls) - 1) /\ IsCompletion(Call(Len(calls)))) =>
               /\ chatPc = "returned"
               /\ completion.content = CarriedContent(Call(Len(calls)))
               /\ chatResult = CarriedContent(Call(Len(calls)))

\* C1 witness: max_retries = 3, two failed requests, then a success (3 requests)
C1_Witness ==
    /\ ~stream
    /\ max_retries = 3
    /\ Len(calls) = 3
    /\ AllFailed(2)
    /\ IsCompletion(Call(3))
    /\ chatPc = "returned"

\* C2: when every request of one complete() call fails (max_retries >= 1), the call
\* sends exactly max_retries requests, then raises the error of the last attempt,
\* and returns no result.
C2_RaisesLastError ==
    (~stream /\ max_retries >= 1 /\ Ended /\ AllFailed(Len(calls))) =>
        /\ Len(calls) = max_retries
        /\ chatPc = "raised"
        /\ chatError = [type |-> FailureType(Call(Len(calls))), attempt |-> max_retries - 1]
        /\ completion = Unset
        /\ chatResult = Unset

\* C2 witness: three failed requests whose first and last errors differ, then the raise
C2_Witness ==
    /\ ~stream
    /\ max_retries = 3
    /\ chatPc = "raised"
    /\ Len(calls) = 3
    /\ AllFailed(3)
    /\ FailureType(Call(1)) # FailureType(Call(3))

-----------------------------------------------------------------------------
(* Properties of complete_stream() and of Agent.chat *)

\* the error is an exception raised by the decoder while handling a line
DecoderRaised ==
    /\ chatPc = "raised"
    /\ chatError.where = "complete_stream"
    /\ chatError.type \notin {"TransportError", "HTTPStatusError"}

\* the lines taken so far that are malformed
MalformedTaken == {i \in 1..pos : IsMalformed(Lines[script.lines[i]])}

\* C5: for every sequence of raw stream lines the chunk decoder never raises because
\* of a line's content; every data line that fails parsing or lacks choices, a first
\* choice or delta is skipped with one logged warning and decoding continues.
C5_DecoderNeverRaises ==
    stream => (~DecoderRaised /\ warnings = Cardinality(MalformedTaken))

\* C6: for every sequence of raw stream lines, once the call has ended with the body
\* closed by the provider, the chunks produced are exactly the choices[0].delta.content
\* values of the well-formed events of the whole sequence, once each and in line
\* order; blank lines, the sentinel and events without content produce none.
C6_ChunksAreEventContents ==
    (stream /\ Ended /\ script.open = "answered" /\ script.status = 200
            /\ script.ending = "close") =>
        chunks = EventContents(script.lines)

\* the lines taken before the first sentinel line (all of them when none was taken)
RECURSIVE BeforeSentinel(_)
BeforeSentinel(ls) ==
    IF ls = <<>> \/ IsSentinel(Lines[Head(ls)]) THEN <<>>
    ELSE <<Head(ls)>> \o BeforeSentinel(Tail(ls))

\* C7: the chunk sequence ends at the sentinel line "data: [DONE]": no chunk is
\* produced from a line that arrives after it; the sequence also ends (the call
\* returns) when the connection closes.
C7_EndsAtSentinel ==
    stream =>
        /\ Len(chunks) <= Len(EventContents(BeforeSentinel(Taken)))
        /\ (chatPc = "lines" /\ pos = Len(script.lines) /\ script.ending = "close") =>
               ENABLED stream_end

\* C8: in streaming mode Agent.chat returns the concatenation of all chunks in
\* arrival order, having forwarded each chunk to the output exactly once and in
\* order (as long as it has not failed); the text returned is the text the streamed events carry, and in
\* non-streaming mode Agent.chat returns the completion's content unmodified, so
\* responses carrying the same text give the same return value in both modes.
C8_StreamEqualsComplete ==
    /\ (stream /\ chatPc \in {"lines", "returned"}) =>
          /\ printed = chunks
          /\ full_content = Joined(printed)
    /\ (stream /\ chatPc = "returned") =>
          /\ chunks = EventContents(script.lines)
          /\ chatResult = JStr(Joined(EventContents(script.lines)))
    /\ (~stream /\ chatPc = "returned") =>
          /\ chatResult = CarriedContent(Call(Len(calls)))
          /\ chatResult = completion.content

\* C8 witness: a stream of two different chunks spelling "hi" has been returned
C8_Witness ==
    /\ stream
    /\ chatPc = "returned"
    /\ Len(chunks) = 2
    /\ chunks[1] # chunks[2]
    /\ chatResult = CarriedContent(Responses[4])

-----------------------------------------------------------------------------
(* Properties of the REPL session *)

\* C3: when a chat turn fails (Agent.chat raises), the error is reported and the
\* REPL returns to Reading to accept further input; it does not enter Closed.
C3_FailedTurnBackToReading ==
    turn = "failed" => (pc = "Reading" /\ console = "error")

\* C4: after a plain-input turn whose Agent.chat call raises, the transcript, and
\* any copy of it persisted afterwards under the session's identifier, equals the
\* transcript as it was before that turn: no user message is left without a reply.
C4_FailedTurnKeepsTranscript ==
    turn = "failed" =>
        /\ messages = before_turn
        /\ \A i \in 1..Len(sessions) :
              sessions[i].id = session_id =>
                  Len(sessions[i].messages) <= Len(before_turn)

\* a message list has just been handed to the completion client
JustSent == pc = "Streaming" /\ chatPc = "call"

\* C9: after any sequence of REPL operations, every message list handed to the
\* completion client begins with one system message holding the active agent's
\* resolved system prompt, holds no other system message, and ends with the newest
\* user message, which appears once: between the two lies the transcript as it
\* was before the turn.
C9_SentListShape ==
    JustSent =>
        /\ Len(last_sent) = Len(before_turn) + 2
        /\ last_sent[1] = Message("system", get_system_prompt(agent))
        /\ \A i \in 2..Len(last_sent) : last_sent[i].role \in {"user", "assistant"}
        /\ last_sent[Len(last_sent)].role = "user"
        /\ last_sent[Len(last_sent)].content = Stripped[last_input]
        /\ SubSeq(last_sent, 2, Len(last_sent) - 1) = before_turn

\* C9 witness: a list sent after an interrupted turn, whose user message stayed in
\* the transcript, by an agent with a custom system prompt
C9_Witness ==
    /\ JustSent
    /\ Len(last_sent) = 3
    /\ last_sent[2].role = "user"
    /\ last_sent[1].content = <<"Be", "brief">>

\* t is raw without its leading and trailing whitespace
IsStripOf(t, raw) ==
    /\ \E a \in 0..Len(raw) : \E b \in 0..(Len(raw) - a) :
          /\ \A k \in 1..a : IsSpace(raw[k])
          /\ \A k \in (Len(raw) - b + 1)..Len(raw) : IsSpace(raw[k])
          /\ t = SubSeq(raw, a + 1, Len(raw) - b)
    /\ t # <<>> => (~IsSpace(t[1]) /\ ~IsSpace(t[Len(t)]))

\* C10: a successful plain-input turn extends the transcript by exactly two
\* messages: the user message with the stripped input, then the assistant message
\* with the text Agent.chat returned; the earlier entries are unchanged, and
\* Agent.chat was called in streaming mode with the stripped input as message and
\* the transcript as it was before the turn as history.
C10_TurnAppendsPair ==
    turn = "ok" =>
        /\ Len(messages) = Len(before_turn) + 2
        /\ SubSeq(messages, 1, Len(before_turn)) = before_turn
        /\ messages[Len(messages) - 1].role = "user"
        /\ IsStripOf(messages[Len(messages) - 1].content, Inputs[last_input])
        /\ messages[Len(messages)] = Message("assistant", chatResult.v)
        /\ last_call.message = messages[Len(messages) - 1].content
        /\ last_call.history = before_turn
        /\ last_call.stream = TRUE

\* C10 witness: a second successful turn, whose input had surrounding whitespace
C10_Witness ==
    /\ turn = "ok"
    /\ Len(messages) = 4
    /\ Len(Inputs[last_input]) > Len(messages[3].content)
    /\ messages[4].content = <<"h", "i">>

\* C11: an interrupt signal that arrives while the REPL is Streaming (inside the
\* Agent.chat call) ends the whole process: the REPL enters Closed with an exit
\* code and does not return to Reading.
C11_StreamingInterruptEndsProcess ==
    turn = "interrupted" => (pc = "Closed" /\ exit_code # -1)

\* C12: an interrupt signal that arrives while the REPL is Reading is swallowed with
\* a hint: the REPL stays in Reading, and the transcript, the active agent, the
\* session identifier and the sessions table are unchanged.
C12_PromptInterruptSwallowed ==
    [][(pc = "Reading" /\ console' = "hint") =>
          /\ pc' = "Reading"
          /\ UNCHANGED <<messages, agent, session_id, sessions, exit_code>>]_vars

\* C12 witness: Ctrl-C at the prompt after a completed turn, with input still to come
C12_Witness ==
    /\ pc = "Reading"
    /\ console = "hint"
    /\ turn = "none"
    /\ Len(messages) = 2
    /\ inputs_read < MaxInputs

-----------------------------------------------------------------------------
(* Properties of persistence *)

\* the table holds a record under id whose role/content pairs are those of msgs
RecordHolds(table, id, msgs) ==
    \E i \in 1..Len(table) :
        /\ table[i].id = id
        /\ Len(table[i].messages) = Len(msgs)
        /\ \A k \in 1..Len(msgs) :
              /\ table[i].messages[k].role = msgs[k].role
              /\ table[i].messages[k].content = msgs[k].content

\* the newest input line was the command cmd
LastCommand(cmd) == last_input # 0 /\ Command[last_input] = cmd

\* the next step reads a command line whose first word is cmd
ReadsCommand(cmd) ==
    /\ pc = "Reading"
    /\ inputs_read' = inputs_read + 1
    /\ Command[last_input'] = cmd

\* C13: after every /save executed with a non-empty transcript of N messages, at any
\* point of a session (also after an earlier /save or /clear), the session record
\* stored under the current session identifier holds exactly N entries whose
\* role/content pairs equal the current transcript's, in the same order.
C13_SaveRoundTrip ==
    (pc = "Reading" /\ LastCommand(CmdSave) /\ messages # <<>>) =>
        RecordHolds(sessions, session_id, messages)

\* C14: whenever the REPL enters Closed with auto-save enabled and a non-empty
\* transcript, a session record under the current session identifier holds the
\* transcript as it was at close; with auto-save disabled or an empty transcript,
\* closing writes no session record.
C14_ClosePersists ==
    [][(pc # "Closed" /\ pc' = "Closed") =>
          IF auto_save /\ messages' # <<>>
          THEN RecordHolds(sessions', session_id', messages')
          ELSE sessions' = sessions]_vars

\* C15: /agent with the name of an existing agent: if auto-save is enabled and the
\* transcript is non-empty, the old transcript is saved under the old session
\* identifier and the old agent's id; the active agent becomes the named agent, the
\* transcript becomes empty, and the session identifier is replaced by a fresh one
\* different from the previous one.
C15_AgentSwitch ==
    [][(/\ ReadsCommand(CmdAgent)
        /\ Len(Parts[last_input']) > 1
        /\ \E r \in 1..Len(AgentRows) : AgentRows[r].name = Parts[last_input'][2]) =>
          /\ (auto_save /\ messages # <<>>) =>
                 /\ RecordHolds(sessions', session_id, messages)
                 /\ \A i \in 1..Len(sessions') :
                       sessions'[i].id = session_id =>
                           sessions'[i].agent_id = AgentRows[agent].id
          /\ AgentRows[agent'].name = Parts[last_input'][2]
          /\ messages' = <<>>
          /\ session_id' # session_id
          /\ \A i \in 1..Len(sessions') : sessions'[i].id # session_id'
          /\ pc' = "Reading"]_vars

-----------------------------------------------------------------------------
(* Properties of the commands *)

\* the next step reads the input line Inputs[i]
Reads(i) ==
    /\ pc = "Reading"
    /\ inputs_read' = inputs_read + 1
    /\ last_input' = i

\* the words of input line i after "/agent", when the line is an /agent command
AgentArgs(i) ==
    IF Command[i] = CmdAgent THEN SubSeq(Parts[i], 2, Len(Parts[i])) ELSE <<>>

NameExists(name) == \E r \in 1..Len(AgentRows) : AgentRows[r].name = name

\* C16: /agent with a name no agent has reports an error and changes nothing: the
\* active agent, the transcript and the session identifier are the same as before,
\* nothing is persisted, and the REPL stays in Reading.
C16_UnknownAgentChangesNothing ==
    [][\A i \in 1..Len(Inputs) :
          (Reads(i) /\ AgentArgs(i) # <<>> /\ ~NameExists(AgentArgs(i)[1])) =>
              /\ console' = "agent_not_found"
              /\ pc' = "Reading"
              /\ UNCHANGED <<messages, agent, session_id, sessions, exit_code>>]_vars

\* C16 witness: an unknown name was given with auto-save on and a non-empty
\* transcript, and nothing has been stored
C16_Witness ==
    /\ pc = "Reading"
    /\ LastCommand(CmdAgent)
    /\ console = "agent_not_found"
    /\ auto_save
    /\ Len(messages) = 2
    /\ sessions = <<>>

\* C17: from any REPL state, /clear leaves the transcript empty and the active agent
\* unchanged, and a /history issued right after it prints the empty-history message
\* and no message entries.
C17_ClearThenHistory ==
    [][/\ ReadsCommand(CmdClear) =>
              (messages' = <<>> /\ agent' = agent /\ pc' = "Reading")
       /\ (LastCommand(CmdClear) /\ ReadsCommand(CmdHistory)) =>
              (console' = "no_messages_yet" /\ messages' = <<>>)]_vars

\* C17 witness: a chat turn, then /clear, then /history (three inputs, no switch)
C17_Witness ==
    /\ inputs_read = 3
    /\ last_call # Unset
    /\ session_id = 1
    /\ messages = <<>>
    /\ LastCommand(CmdHistory)
    /\ console = "no_messages_yet"

KnownCommands == {CmdExit, CmdQuit, CmdHelp, CmdClear, CmdSave, CmdHistory, CmdAgent}

\* input line i starts with "/" after strip and its first word, lower-cased, is
\* none of the seven commands
IsUnrecognized(i) ==
    /\ strip(Inputs[i]) # <<>>
    /\ Head(strip(Inputs[i])) = "/"
    /\ lower(split(strip(Inputs[i]))[1]) \notin KnownCommands

Unrecognized == {i \in 1..Len(Inputs) : IsUnrecognized(i)}

\* C18: input starting with "/" whose first word is not one of help, exit, quit,
\* clear, save, history, agent (compared case-insensitively) prints an error and
\* leaves the REPL in Reading with transcript, active agent and session identifier
\* unchanged; it is never sent to the agent as a chat message.
C18_UnknownCommand ==
    [][\A i \in Unrecognized :
          Reads(i) =>
              /\ console' = "unknown_command"
              /\ pc' = "Reading"
              /\ chatPc' = "idle"
              /\ UNCHANGED <<messages, agent, session_id, sessions, last_call,
                             last_sent, exit_code>>]_vars

\* C18 witness: an unrecognized command was read after a completed turn
C18_Witness ==
    /\ pc = "Reading"
    /\ last_input \in Unrecognized
    /\ console = "unknown_command"
    /\ Len(messages) = 2

\* C19: /exit, /quit and an end-of-input signal each move the REPL from Reading to
\* Closed, and Closed is terminal: after it is entered no further input is read, no
\* completion call is issued and the transcript is not modified.
C19_ClosedIsTerminal ==
    [][/\ (ReadsCommand(CmdExit) \/ ReadsCommand(CmdQuit) \/ prompt_eof) =>
              (pc' = "Closed" /\ messages' = messages)
       /\ pc = "Closed" =>
              UNCHANGED <<pc, messages, inputs_read, last_input, last_call, last_sent,
                          calls, chatPc>>]_vars

\* C19 witness: the REPL was closed by /quit after a completed turn
C19_Witness ==
    /\ pc = "Closed"
    /\ LastCommand(CmdQuit)
    /\ exit_code = 0
    /\ Len(messages) = 2
    /\ ~ENABLED Next

-----------------------------------------------------------------------------
(* Streaming and retries *)

\* the provider makes the streamed request fail: the connection is refused, the
\* status is not 2xx, or the connection breaks after the lines were sent
FailingScript ==
    \/ script.open = "refused"
    \/ script.status < 200
    \/ script.status > 299
    \/ script.ending = "broken"

\* the call ended with the transport's or the status check's error
TransportRaised ==
    /\ chatPc = "raised"
    /\ chatError.where = "complete_stream"
    /\ chatError.type \in {"TransportError", "HTTPStatusError"}

\* C20: complete_stream never retries: for every configured max_retries one call
\* sends exactly one request, and a failure (non-2xx status, or transport failure
\* before or after the first chunk) reaches the consumer as a terminal error after
\* the chunks already produced: the call does not return, and nothing happens after
\* the error.
C20_StreamNeverRetries ==
    stream =>
        /\ Len(calls) <= 1
        /\ chatPc # "call" => Len(calls) = 1
        /\ (Ended /\ FailingScript) => (chatPc = "raised" /\ chatResult = Unset)
        /\ TransportRaised =>
               /\ FailingScript
               /\ chunks = EventContents(Taken)
               /\ printed = chunks
        /\ chatPc = "raised" => ~ENABLED ChatNext

\* C20 witness: with retries configured, the connection broke after two chunks
C20_Witness ==
    /\ stream
    /\ max_retries >= 2
    /\ TransportRaised
    /\ Len(chunks) = 2
    /\ Len(calls) = 1

-----------------------------------------------------------------------------
(* Properties of validate_connection and of the agent store *)

\* the provider answered the request with a 2xx status
IsSuccess(r) == r.kind = "http" /\ r.status >= 200 /\ r.status <= 299

\* C21: validate_connection always returns a boolean and never propagates an
\* exception: it returns true when the provider call succeeds with a 2xx status,
\* and false on any failure of that call (transport error, timeout, non-2xx).
C21_ValidateReturnsBoolean ==
    outcome.op = "validate_connection" =>
        /\ outcome.ret.exc = "none"
        /\ outcome.ret.val \in BOOLEAN
        /\ outcome.ret.val = IsSuccess(ModelsResponses[outcome.probe])

\* C21 witness: the request timed out and the call returned false
C21_Witness ==
    /\ outcome.op = "validate_connection"
    /\ ModelsResponses[outcome.probe].kind = "timeout"
    /\ outcome.ret.exc = "none"
    /\ outcome.ret.val = FALSE

\* the stored row with that name
RowOf(table, name) == table[CHOOSE i \in 1..Len(table) : table[i].name = name]

\* the config sets system_prompt to a value
HasPromptOverride(config) ==
    "system_prompt" \in DOMAIN config /\ config.system_prompt.t # "null"

TypesWithDefault == {"general", "developer", "devops", "data_analyst"}

\* C22: the system prompt an agent uses is the agent-level system_prompt when one is
\* configured (set to a value); otherwise the fixed default for the agent's type when
\* the type is one of general, developer, devops, data_analyst; otherwise the
\* 'general' prompt.  The result is always a text string.
C22_SystemPromptResolution ==
    outcome.op = "get_system_prompt" =>
        LET row == RowOf(outcome.before, outcome.name)
        IN  /\ outcome.ret.exc = "none"
            /\ outcome.ret.val.t = "str"
            /\ outcome.ret.val =
                  IF HasPromptOverride(row.config) THEN row.config.system_prompt
                  ELSE IF row.type \in TypesWithDefault
                  THEN JStr(DEFAULT_SYSTEM_PROMPTS[row.type])
                  ELSE JStr(DEFAULT_SYSTEM_PROMPTS["general"])

-----------------------------------------------------------------------------
(* Properties of teardown and of the transcript *)

\* the REPL process has ended
Exited == pc = "Closed" /\ exit_code # -1

\* C23: every Completion Client HTTP connection created during a REPL session (one
\* per agent that issued a completion, including agents replaced by /agent) has been
\* released by the time the session has torn down; none is left open.
C23_ClientsReleased ==
    Exited => open_clients = 0

\* C24: the process exit code is 1 whenever a handled error ends the REPL (a failed
\* chat turn), and 130 whenever the process is ended by an interrupt signal.
C24_ExitCodes ==
    Exited =>
        /\ turn = "failed" => exit_code = 1
        /\ turn = "interrupted" => exit_code = 130

\* every user message is immediately followed by an assistant message, and nothing
\* else is in the list
InPairs(msgs) ==
    /\ Len(msgs) % 2 = 0
    /\ \A i \in 1..Len(msgs) :
          msgs[i].role = IF i % 2 = 1 THEN "user" ELSE "assistant"

\* C28: whenever the REPL is in Reading, after any sequence of turns, commands,
\* failed turns and interrupts, the transcript holds only user and assistant
\* messages in complete pairs: its length is even and every user message is
\* immediately followed by the assistant reply to it.
C28_TranscriptInPairs ==
    pc = "Reading" => InPairs(messages)

-----------------------------------------------------------------------------
(* Properties of AgentManager *)

\* a row with that name is in the table
Stored(table, name) == \E i \in 1..Len(table) : table[i].name = name

\* the rows of the table whose name is not the given one, in order
RECURSIVE Others(_, _)
Others(table, name) ==
    IF table = <<>> THEN <<>>
    ELSE IF Head(table).name = name THEN Others(Tail(table), name)
    ELSE <<Head(table)>> \o Others(Tail(table), name)

\* C26: agent names are unique after any sequence of create_agent, update_agent and
\* delete_agent calls: create_agent with a name that already exists raises
\* ValueError and leaves the stored agents unchanged; create_agent with a new name
\* adds exactly one agent with status 'enabled' that get_agent then returns with
\* the same id.
C26_AgentNamesUnique ==
    /\ \A i, j \in 1..Len(store) : store[i].name = store[j].name => i = j
    /\ outcome.op = "create_agent" =>
          IF Stored(outcome.before, outcome.name)
          THEN /\ outcome.ret.exc = "ValueError"
               /\ store = outcome.before
          ELSE /\ outcome.ret.exc = "none"
               /\ Len(store) = Len(outcome.before) + 1
               /\ SubSeq(store, 1, Len(outcome.before)) = outcome.before
               /\ store[Len(store)].name = outcome.name
               /\ store[Len(store)].status = "enabled"
               /\ outcome.ret.val.name = outcome.name
               /\ RowOf(store, outcome.name).id = outcome.ret.val.id
               /\ \A i \in 1..Len(outcome.before) :
                     outcome.before[i].id # outcome.ret.val.id

\* C26 witness: with two agents stored, a third call creates one of the names again
\* and is refused
C26_Witness ==
    /\ outcome.op = "create_agent"
    /\ outcome.ret.exc = "ValueError"
    /\ Len(store) = 2
    /\ ops = 3

\* C27: delete_agent(name) returns True exactly when an agent with that name existed;
\* afterwards get_agent(name) returns None and every other stored agent is
\* unchanged.  For a name that does not exist it returns False and leaves the store
\* unchanged.
C27_DeleteAgent ==
    outcome.op = "delete_agent" =>
        /\ outcome.ret.exc = "none"
        /\ outcome.ret.val = Stored(outcome.before, outcome.name)
        /\ ~Stored(store, outcome.name)
        /\ store = Others(outcome.before, outcome.name)
        /\ ~Stored(outcome.before, outcome.name) => store = outcome.before

\* C27 witness: of two stored agents the first was deleted and the second remains
C27_Witness ==
    /\ outcome.op = "delete_agent"
    /\ outcome.ret.val = TRUE
    /\ Len(outcome.before) = 2
    /\ outcome.before[1].name = outcome.name
    /\ Len(store) = 1

-----------------------------------------------------------------------------
(* The end-to-end example *)

\* a turn that began with an empty transcript, read the input "hello", received the
\* content "hi there" from the provider and succeeded
HelloTurn ==
    /\ turn = "ok"
    /\ before_turn = <<>>
    /\ Inputs[last_input] = Hello
    /\ chatResult = JStr(HiThere)

\* C25 as stated: starting from an empty transcript, after a successful turn with
\* input "hello" and a provider returning the content "hi there", the chat returns
\* "hi there" and the transcript after the turn has three entries beginning with
\* the system message: [system, user:"hello", assistant:"hi there"].
C25_EndToEnd ==
    HelloTurn =>
        /\ Len(messages) = 3
        /\ messages[1].role = "system"
        /\ messages[2] = Message("user", Hello)
        /\ messages[3] = Message("assistant", HiThere)

\* C25 amended: starting from an empty transcript, after a successful turn with input
\* "hello" and a provider returning the content "hi there", the chat returns
\* "hi there", the list sent to the provider is [system, user:"hello"], and the
\* transcript after the turn has two entries, [user:"hello", assistant:"hi there"]:
\* the system message is not part of it.
C25_EndToEndTranscript ==
    /\ (/\ pc = "Streaming"
        /\ chatPc = "returned"
        /\ Joined(EventContents(script.lines)) = HiThere) => chatResult = JStr(HiThere)
    /\ HelloTurn =>
          /\ last_call.message = Hello
          /\ last_sent = <<Message("system", get_system_prompt(agent)),
                           Message("user", Hello)>>
          /\ messages = <<Message("user", Hello), Message("assistant", HiThere)>>

\* C25 witness: the example turn has happened
C25_Witness == HelloTurn /\ Len(messages) = 2

-----------------------------------------------------------------------------
(* The type of the chunks *)

\* agent.py line 141 failed on a chunk it was handed
AccumulationFailed ==
    /\ chatPc = "raised"
    /\ chatError.where = "chat"
    /\ chatError.type = "TypeError"

\* C29: every chunk complete_stream produces is a text string, for every well-formed
\* JSON event the provider can send (an event whose delta carries a content field
\* set to null included), so that the accumulation of chunks in Agent.chat never
\* fails on a produced chunk.
C29_ChunksAreText ==
    stream =>
        /\ \A i \in 1..Len(chunks) : chunks[i].t = "str"
        /\ ~AccumulationFailed

-----------------------------------------------------------------------------
(* 2xx answers that complete() cannot decode *)

\* the JSON object of a 2xx answer
IsObjectAnswer(r) ==
    /\ r.kind = "http"
    /\ ~Fails(r)
    /\ r.body.valid
    /\ r.body.doc.t = "obj"

NoChoices(r) == IsObjectAnswer(r) /\ "choices" \notin DOMAIN r.body.doc.v

EmptyChoices(r) ==
    /\ IsObjectAnswer(r)
    /\ "choices" \in DOMAIN r.body.doc.v
    /\ r.body.doc.v.choices.t = "arr"
    /\ r.body.doc.v.choices.v = <<>>

\* the first choice holds a message that lacks content or role
IncompleteMessage(r) ==
    /\ IsObjectAnswer(r)
    /\ "choices" \in DOMAIN r.body.doc.v
    /\ r.body.doc.v.choices.t = "arr"
    /\ r.body.doc.v.choices.v # <<>>
    /\ r.body.doc.v.choices.v[1].t = "obj"
    /\ "message" \in DOMAIN r.body.doc.v.choices.v[1].v
    /\ r.body.doc.v.choices.v[1].v.message.t = "obj"
    /\ ~({"content", "role"} \subseteq DOMAIN r.body.doc.v.choices.v[1].v.message.v)

Undecodable(r) == NoChoices(r) \/ EmptyChoices(r) \/ IncompleteMessage(r)

\* the error Python raises for such an answer
DecodingError(r) == IF EmptyChoices(r) THEN "IndexError" ELSE "KeyError"

\* C30: in complete(), a 2xx response whose body cannot be decoded into a result (no
\* choices, empty choices, or a first choice without message content or role) is
\* handled like a failed attempt: it consumes one of the max_retries attempts, the
\* request is sent again while attempts remain, and after the last attempt the
\* decoding error is raised; a response lacking only finish_reason or usage is a
\* success whose missing field is None.
C30_UndecodableAnswerRetried ==
    (~stream /\ chatPc # "idle" /\ max_retries >= 1) =>
        /\ \A i \in 1..Len(calls) :
              Undecodable(Call(i)) =>
                  /\ Len(errors) >= i
                  /\ errors[i] = [type |-> DecodingError(Call(i)), attempt |-> i - 1]
        /\ (Len(calls) >= 1 /\ Undecodable(Call(Len(calls)))) =>
              /\ completion = Unset
              /\ chatResult = Unset
              /\ IF Len(calls) < max_retries
                 THEN chatPc = "call" /\ attempt = Len(calls)
                 ELSE /\ chatPc = "raised"
                      /\ chatError = [type |-> DecodingError(Call(Len(calls))),
                                      attempt |-> max_retries - 1]
        /\ (Len(calls) >= 1 /\ IsCompletion(Call(Len(calls)))) =>
              /\ chatPc = "returned"
              /\ "finish_reason" \notin DOMAIN Call(Len(calls)).body.doc.v.choices.v[1].v
                    => completion.finish_reason = JNull
              /\ "usage" \notin DOMAIN Call(Len(calls)).body.doc.v
                    => completion.usage = JNull

\* C30 witness: an answer without choices and one with empty choices were each
\* followed by another request, and the third answer, which lacks finish_reason and
\* usage, was returned
C30_Witness ==
    /\ ~stream
    /\ chatPc = "returned"
    /\ Len(calls) = 3
    /\ NoChoices(Call(1))
    /\ EmptyChoices(Call(2))
    /\ IsCompletion(Call(3))
    /\ "finish_reason" \notin DOMAIN Call(3).body.doc.v.choices.v[1].v
    /\ "usage" \notin DOMAIN Call(3).body.doc.v

=============================================================================
